---- MODULE Spec2Model ----
(***************************************************************************)
(* mackerel-plugin-aws-alb: discovery of target groups (prepare), the      *)
(* collection cycle (FetchMetrics) and latest-point selection              *)
(* (getLastPercentile), for the plugin with per-target-group metrics and   *)
(* for the load-balancer-only plugin of lib/aws-alb.go.                    *)
(*                                                                         *)
(* Strings are TLC strings; the one operation that looks inside a string,  *)
(* strings.Split, works on the string's characters, given by Chars.        *)
(* Times are integers, floats are integers, a Go nil error is NilErr.      *)
(***************************************************************************)
EXTENDS Integers, Sequences, FiniteSets, TLC

VARIABLES
    version,       \* which Plugin runs: "groups" (per-target-group plugin) or "lib"
    LBName,        \* Plugin.LBName
    Prefix,        \* Plugin.Prefix
    TargetGroups,  \* Plugin.TargetGroups
    metrics,       \* prepare's local ret.Metrics, gone once prepare's caller moves on
    pc,            \* position of Do / FetchMetrics
    i,             \* index of the next entry of TargetGroups in FetchMetrics' loop
    stat,          \* the map FetchMetrics builds
    queries,       \* the API calls issued so far, in order
    resp,          \* summary of the last API response: its error, its number of datapoints
    err,           \* what the last getLastPercentile call returned
    ret,           \* what FetchMetrics returned
    now,           \* the time.Now() of the getLastPercentile call under study
    datapoints     \* the response.Datapoints of the getLastPercentile call under study

vars == <<version, LBName, Prefix, TargetGroups, metrics, pc, i, stat, queries, resp, err, ret,
          now, datapoints>>

----------------------------------------------------------------------------
(* Bounds *)

MaxMetrics == 2          \* metrics in one ListMetrics response
MaxCycleDatapoints == 1  \* datapoints in one response within a collection cycle
MaxDatapoints == 3       \* datapoints in the response of the call under study
MaxTime == 3             \* timestamps range over 1..MaxTime

----------------------------------------------------------------------------
(* Values of the program *)

NilErr == "<nil>"
ErrNoDatapoints == "fetched no datapoints"
ApiErrors == {"RequestError: send request failed", "Throttling: Rate exceeded"}

Percentiles == <<"p99", "p95", "p90", "p50", "p10">>

PercentileSet == {Percentiles[n] : n \in 1..Len(Percentiles)}

LBNames == {"", "app/my-lb/abc123"}

Prefixes == {"alb"}

TargetGroupIds == {"targetgroup/tg-a/111", "targetgroup/tg-a/222", "targetgroup/tg-b/333"}

\* The characters of each string the program splits.
Chars(s) ==
    CASE s = "targetgroup/tg-a/111" ->
           <<"t","a","r","g","e","t","g","r","o","u","p","/","t","g","-","a","/","1","1","1">>
      [] s = "targetgroup/tg-a/222" ->
           <<"t","a","r","g","e","t","g","r","o","u","p","/","t","g","-","a","/","2","2","2">>
      [] s = "targetgroup/tg-b/333" ->
           <<"t","a","r","g","e","t","g","r","o","u","p","/","t","g","-","b","/","3","3","3">>

RECURSIVE Str(_)
Str(cs) == IF cs = <<>> THEN "" ELSE Head(cs) \o Str(Tail(cs))

\* strings.Split(s, sep) for a one-character sep: the segments between separators.
RECURSIVE SplitChars(_, _, _)
SplitChars(cs, sep, cur) ==
    IF cs = <<>> THEN <<Str(cur)>>
    ELSE IF Head(cs) = sep THEN <<Str(cur)>> \o SplitChars(Tail(cs), sep, <<>>)
    ELSE SplitChars(Tail(cs), sep, Append(cur, Head(cs)))

Split(s, sep) == SplitChars(Chars(s), sep, <<>>)

\* Timestamps of datapoints, and readings of the clock: a timestamp can lie
\* before, at or after a reading, and the earliest one lies before every reading.
Times == 1..MaxTime

Clock == 2..(MaxTime + 1)

Values == {1, 2}

\* The extended statistics of a datapoint: one value per requested percentile.
Rank(p) == CHOOSE n \in 1..Len(Percentiles) : Percentiles[n] = p

ExtendedStatistics(v) == [p \in PercentileSet |-> 10 * v + Rank(p)]

Datapoint == {[Timestamp |-> t, ExtendedStatistics |-> ExtendedStatistics(v)] :
                t \in Times, v \in Values}

RECURSIVE SeqsUpTo(_, _)
SeqsUpTo(S, n) ==
    IF n = 0 THEN {<<>>}
    ELSE LET shorter == SeqsUpTo(S, n - 1)
         IN  shorter \cup {Append(q, x) : q \in {r \in shorter : Len(r) = n - 1}, x \in S}

\* A GetMetricStatistics outcome: an error, or a response with its datapoints.
Responses(n) ==
    {[err |-> e, Datapoints |-> <<>>] : e \in ApiErrors}
    \cup {[err |-> NilErr, Datapoints |-> dps] : dps \in SeqsUpTo(Datapoint, n)}

\* The outcomes of a query within a collection cycle, and of the call under study.
CycleResponses == Responses(MaxCycleDatapoints)

StudyDatapoints == SeqsUpTo(Datapoint, MaxDatapoints)

\* A ListMetrics outcome for the filter prepare sends: every metric matches the
\* filter (it has a TargetGroup dimension, and LoadBalancer = lb when lb is set),
\* and every dimension of a metric carries its name and its value, as CloudWatch
\* returns them; a metric names each of its dimensions once.
TG(t) == [Name |-> "TargetGroup", Value |-> t]
LB(l) == [Name |-> "LoadBalancer", Value |-> l]
AZ == [Name |-> "AvailabilityZone", Value |-> "us-east-1a"]

MetricsMatching(lb) ==
    LET lbs == IF lb = "" THEN LBNames \ {""} ELSE {lb}
    IN  UNION {
          (IF lb = "" THEN {[Dimensions |-> <<TG(t)>>]} ELSE {})
          \cup {[Dimensions |-> <<TG(t), LB(l)>>] : l \in lbs}
          \cup {[Dimensions |-> <<LB(l), TG(t)>>] : l \in lbs}
          \cup {[Dimensions |-> <<AZ, LB(l), TG(t)>>] : l \in lbs}
          : t \in TargetGroupIds}

ListResponses(lb) ==
    {[err |-> e, Metrics |-> <<>>] : e \in ApiErrors}
    \cup {[err |-> NilErr, Metrics |-> ms] : ms \in SeqsUpTo(MetricsMatching(lb), MaxMetrics)}

----------------------------------------------------------------------------
(* prepare *)

\* The dimension filters of the ListMetrics call.
DimensionFilters(lb) ==
    <<[Name |-> "TargetGroup"]>>
    \o (IF lb # "" THEN <<[Name |-> "LoadBalancer", Value |-> lb]>> ELSE <<>>)

\* A faulty variant: the dimension's name is not looked at.
RECURSIVE AppendTargetGroups_AnyDimension(_, _)
AppendTargetGroups_AnyDimension(tgs, dims) ==
    IF dims = <<>> THEN tgs
    ELSE IF "Value" \notin DOMAIN Head(dims)
         THEN AppendTargetGroups_AnyDimension(tgs, Tail(dims))
    ELSE AppendTargetGroups_AnyDimension(Append(tgs, Head(dims).Value), Tail(dims))

\* The inner loop of prepare over one metric's dimensions. A nil Name or Value is
\* a field the record does not have.
RECURSIVE AppendTargetGroups(_, _)
AppendTargetGroups(tgs, dims) ==
    IF dims = <<>> THEN tgs
    ELSE IF "Name" \in DOMAIN Head(dims) /\ Head(dims).Name # "TargetGroup"
         THEN AppendTargetGroups(tgs, Tail(dims))
    ELSE IF "Value" \notin DOMAIN Head(dims) THEN AppendTargetGroups(tgs, Tail(dims))
    ELSE AppendTargetGroups(Append(tgs, Head(dims).Value), Tail(dims))

\* The outer loop of prepare over the returned metrics.
RECURSIVE CollectTargetGroups(_, _)
CollectTargetGroups(tgs, mets) ==
    IF mets = <<>> THEN tgs
    ELSE IF Len(Head(mets).Dimensions) # 2 THEN CollectTargetGroups(tgs, Tail(mets))
    ELSE CollectTargetGroups(AppendTargetGroups(tgs, Head(mets).Dimensions), Tail(mets))

----------------------------------------------------------------------------
(* getLastPercentile *)

EmptyMap == <<>>

\* stat[k] = v on a Go map.
Put(m, k, v) == (k :> v) @@ m

\* A faulty variant: `latest` is not moved to the datapoint taken.
ScanStep_KeepLatest(acc, dp, percentile) ==
    IF dp.Timestamp < acc.latest THEN acc
    ELSE [latest |-> acc.latest, latestVal |-> dp.ExtendedStatistics[percentile]]

\* One iteration of the loop over the datapoints: a datapoint before `latest` is
\* skipped, any other becomes the latest.
ScanStep(acc, dp, percentile) ==
    IF dp.Timestamp < acc.latest THEN acc
    ELSE [latest |-> dp.Timestamp, latestVal |-> dp.ExtendedStatistics[percentile]]

RECURSIVE Scan(_, _, _)
Scan(acc, dps, percentile) ==
    IF dps = <<>> THEN acc
    ELSE Scan(ScanStep(acc, Head(dps), percentile), Tail(dps), percentile)

\* latestVal after the loop over the datapoints, `latest` starting at latest0.
LatestVal(latest0, dps, percentile) ==
    Scan([latest |-> latest0, latestVal |-> 0], dps, percentile).latestVal

\* The loop over the percentiles: stat[prefix+percentile] = latestVal.
RECURSIVE WritePercentiles(_, _, _, _, _)
WritePercentiles(st, prefix, latest0, dps, ps) ==
    IF ps = <<>> THEN st
    ELSE WritePercentiles(Put(st, prefix \o Head(ps), LatestVal(latest0, dps, Head(ps))),
                          prefix, latest0, dps, Tail(ps))

\* A faulty variant: an empty response is not refused, each percentile is written as 0.
getLastPercentile_NoEmptyCheck(st, prefix, nw, response) ==
    IF response.err # NilErr THEN [stat |-> st, err |-> response.err]
    ELSE [stat |-> WritePercentiles(st, prefix, nw, response.Datapoints, Percentiles),
          err |-> NilErr]

\* A faulty variant: the API error is not looked at, the empty response is what is reported.
getLastPercentile_NoErrCheck(st, prefix, nw, response) ==
    IF Len(response.Datapoints) = 0 THEN [stat |-> st, err |-> ErrNoDatapoints]
    ELSE [stat |-> WritePercentiles(st, prefix, nw, response.Datapoints, Percentiles),
          err |-> NilErr]

\* getLastPercentile of the per-target-group plugin, given the clock reading and
\* the outcome of its GetMetricStatistics call: the map and the error it leaves.
getLastPercentile(st, prefix, nw, response) ==
    IF response.err # NilErr THEN [stat |-> st, err |-> response.err]
    ELSE IF Len(response.Datapoints) = 0 THEN [stat |-> st, err |-> ErrNoDatapoints]
    ELSE [stat |-> WritePercentiles(st, prefix, nw, response.Datapoints, Percentiles),
          err |-> NilErr]

\* Go's zero time.Time, before every timestamp.
ZeroTime == 0

\* getLastPercentile of lib/aws-alb.go: `latest` starts at the zero time, no prefix.
LibGetLastPercentile(st, response) ==
    IF response.err # NilErr THEN [stat |-> st, err |-> response.err]
    ELSE IF Len(response.Datapoints) = 0 THEN [stat |-> st, err |-> ErrNoDatapoints]
    ELSE [stat |-> WritePercentiles(st, "", ZeroTime, response.Datapoints, Percentiles),
          err |-> NilErr]

----------------------------------------------------------------------------
(* FetchMetrics *)

\* The dimensions of the query for one target group.
GroupDimensions(tg, lb) ==
    <<[Name |-> "TargetGroup", Value |-> tg]>>
    \o (IF lb # "" THEN <<[Name |-> "LoadBalancer", Value |-> lb]>> ELSE <<>>)

\* A faulty variant: the LoadBalancer dimension is sent whether or not a name is configured.
AggregateDimensions_AlwaysLoadBalancer(lb) ==
    <<[Name |-> "LoadBalancer", Value |-> lb]>>

\* A faulty variant: the aggregate query keeps the dimensions of the loop's last iteration.
AggregateDimensions_KeepsLoopDimensions(lb) ==
    IF TargetGroups = <<>>
    THEN IF lb # "" THEN <<[Name |-> "LoadBalancer", Value |-> lb]>> ELSE <<>>
    ELSE GroupDimensions(TargetGroups[Len(TargetGroups)], lb)

\* The dimensions of the aggregate query.
AggregateDimensions(lb) ==
    IF lb # "" THEN <<[Name |-> "LoadBalancer", Value |-> lb]>> ELSE <<>>

\* name := strings.Split(tg, "/"), for every identifier.
Segments == [tg \in TargetGroupIds |-> Split(tg, "/")]

\* A faulty variant: the first segment is taken for the name.
GroupPrefix_FirstSegment(tg) == "response_ext_per_group." \o Segments[tg][1] \o "."

\* MetricKeyPrefix: the configured prefix, handed to the reporting helper; it is
\* no part of what FetchMetrics writes.
MetricKeyPrefix == Prefix

\* The key prefix of one target group's percentiles: name[1] is the second segment.
GroupPrefix(tg) == "response_ext_per_group." \o Segments[tg][2] \o "."

Summary(response) == [err |-> response.err, n |-> Len(response.Datapoints)]

NoReturn == [nil |-> TRUE, stat |-> EmptyMap, err |-> NilErr]

\* return nil, err
ReturnErr(e) == [nil |-> TRUE, stat |-> EmptyMap, err |-> e]

\* return stat, nil
ReturnStat(st) == [nil |-> FALSE, stat |-> st, err |-> NilErr]

StatQuery(dims) == [api |-> "GetMetricStatistics", Dimensions |-> dims]

----------------------------------------------------------------------------
(* The plugin run: Do calls prepare, then the helper calls FetchMetrics once. *)

Init ==
    /\ version \in {"groups", "lib"}
    /\ LBName \in LBNames
    /\ Prefix \in Prefixes
    /\ TargetGroups = <<>>
    /\ metrics = <<>>
    /\ pc = "start"
    /\ i = 0
    /\ stat = EmptyMap
    /\ queries = <<>>
    /\ resp = [err |-> NilErr, n |-> 0]
    /\ err = NilErr
    /\ ret = NoReturn
    /\ now = 0
    /\ datapoints = <<>>

prepare ==
    /\ version = "groups"
    /\ pc = "start"
    /\ \E r \in ListResponses(LBName) :
         /\ queries' = Append(queries, [api |-> "ListMetrics",
                                        Dimensions |-> DimensionFilters(LBName)])
         /\ IF r.err # NilErr
            THEN /\ pc' = "fatal"
                 /\ UNCHANGED <<TargetGroups, metrics>>
            ELSE /\ pc' = "ready"
                 /\ metrics' = r.Metrics
                 /\ TargetGroups' = CollectTargetGroups(<<>>, r.Metrics)
    /\ UNCHANGED <<version, LBName, Prefix, i, stat, resp, err, ret, now, datapoints>>

\* FetchMetrics up to its loop: stat := make(map[string]float64).
FetchMetrics ==
    /\ version = "groups"
    /\ pc = "ready"
    /\ stat' = EmptyMap
    /\ i' = 1
    /\ pc' = "loop"
    /\ metrics' = <<>>
    /\ UNCHANGED <<version, LBName, Prefix, TargetGroups, queries, resp, err, ret,
                   now, datapoints>>

\* One iteration of FetchMetrics' loop over the target groups.
FetchTargetGroup ==
    /\ version = "groups"
    /\ pc = "loop"
    /\ i <= Len(TargetGroups)
    /\ LET tg     == TargetGroups[i]
           glb    == GroupDimensions(tg, LBName)
           prefix == GroupPrefix(tg)
       IN  \E nw \in Clock, response \in CycleResponses :
             LET r == getLastPercentile(stat, prefix, nw, response)
             IN  /\ queries' = Append(queries, StatQuery(glb))
                 /\ resp' = Summary(response)
                 /\ stat' = r.stat
                 /\ err' = r.err
                 /\ IF r.err # NilErr
                    THEN /\ ret' = ReturnErr(r.err)
                         /\ pc' = "returned"
                         /\ UNCHANGED i
                    ELSE /\ i' = i + 1
                         /\ UNCHANGED <<ret, pc>>
    /\ UNCHANGED <<version, LBName, Prefix, TargetGroups, metrics, now, datapoints>>

\* FetchMetrics after its loop: the aggregate query and the return.
FetchAggregate ==
    /\ version = "groups"
    /\ pc = "loop"
    /\ i > Len(TargetGroups)
    /\ \E nw \in Clock, response \in CycleResponses :
         LET r == getLastPercentile(stat, "", nw, response)
         IN  /\ queries' = Append(queries, StatQuery(AggregateDimensions(LBName)))
             /\ resp' = Summary(response)
             /\ stat' = r.stat
             /\ err' = r.err
             /\ ret' = IF r.err # NilErr THEN ReturnErr(r.err) ELSE ReturnStat(r.stat)
             /\ pc' = "returned"
    /\ UNCHANGED <<version, LBName, Prefix, TargetGroups, metrics, i, now, datapoints>>

\* prepare of lib/aws-alb.go: it only builds the client.
LibPrepare ==
    /\ version = "lib"
    /\ pc = "start"
    /\ pc' = "ready"
    /\ UNCHANGED <<version, LBName, Prefix, TargetGroups, metrics, i, stat, queries, resp, err, ret,
                   now, datapoints>>

\* FetchMetrics of lib/aws-alb.go: the aggregate query alone.
LibFetchMetrics ==
    /\ version = "lib"
    /\ pc = "ready"
    /\ \E response \in CycleResponses :
         LET r == LibGetLastPercentile(EmptyMap, response)
         IN  /\ queries' = Append(queries, StatQuery(AggregateDimensions(LBName)))
             /\ resp' = Summary(response)
             /\ stat' = r.stat
             /\ err' = r.err
             /\ ret' = IF r.err # NilErr THEN ReturnErr(r.err) ELSE ReturnStat(r.stat)
             /\ pc' = "returned"
    /\ UNCHANGED <<version, LBName, Prefix, TargetGroups, metrics, i, now, datapoints>>

Next ==
    \/ prepare
    \/ FetchMetrics
    \/ FetchTargetGroup
    \/ FetchAggregate
    \/ LibPrepare
    \/ LibFetchMetrics

Spec == Init /\ [][Next]_vars

----------------------------------------------------------------------------
(* Latest-point selection on its own: one getLastPercentile call on an empty  *)
(* map, its clock reading and its response drawn from the bounded sets.       *)

SelInit ==
    /\ version \in {"groups", "lib"}
    /\ LBName = ""
    /\ Prefix \in Prefixes
    /\ TargetGroups = <<>>
    /\ metrics = <<>>
    /\ pc = "call"
    /\ i = 0
    /\ stat = EmptyMap
    /\ queries = <<>>
    /\ resp = [err |-> NilErr, n |-> 0]
    /\ err = NilErr
    /\ ret = NoReturn
    /\ now \in Clock
    /\ datapoints \in StudyDatapoints

SelGetLastPercentile ==
    /\ version = "groups"
    /\ pc = "call"
    /\ LET r == getLastPercentile(stat, "", now, [err |-> NilErr, Datapoints |-> datapoints])
       IN  /\ stat' = r.stat
           /\ err' = r.err
    /\ resp' = [err |-> NilErr, n |-> Len(datapoints)]
    /\ pc' = "called"
    /\ UNCHANGED <<version, LBName, Prefix, TargetGroups, metrics, i, queries, ret, now, datapoints>>

SelLibGetLastPercentile ==
    /\ version = "lib"
    /\ pc = "call"
    /\ LET r == LibGetLastPercentile(stat, [err |-> NilErr, Datapoints |-> datapoints])
       IN  /\ stat' = r.stat
           /\ err' = r.err
    /\ resp' = [err |-> NilErr, n |-> Len(datapoints)]
    /\ pc' = "called"
    /\ UNCHANGED <<version, LBName, Prefix, TargetGroups, metrics, i, queries, ret, now, datapoints>>

SelNext ==
    \/ SelGetLastPercentile
    \/ SelLibGetLastPercentile

SelSpec == SelInit /\ [][SelNext]_vars

----------------------------------------------------------------------------
(* Properties *)

IsStatQuery(q) == q.api = "GetMetricStatistics"

StatQueries == SelectSeq(queries, IsStatQuery)

\* The positions of the dimensions called `name` in a query's dimensions.
DimsNamed(q, name) == {k \in 1..Len(q.Dimensions) : q.Dimensions[k].Name = name}

\* The step issued a statistics query.
Queried == /\ Len(queries') = Len(queries) + 1
           /\ IsStatQuery(queries'[Len(queries')])

Succeeded == pc = "returned" /\ ~ret.nil

\* The middle path segment of each identifier, written out.
ShortName(tg) ==
    CASE tg = "targetgroup/tg-a/111" -> "tg-a"
      [] tg = "targetgroup/tg-a/222" -> "tg-a"
      [] tg = "targetgroup/tg-b/333" -> "tg-b"

Range(f) == {f[x] : x \in DOMAIN f}

(* Latest-point selection, under SelSpec *)

\* The datapoints not later than `now`, and the latest among them.
Eligible == {n \in 1..Len(datapoints) : datapoints[n].Timestamp <= now}

LatestEligible ==
    {n \in Eligible : \A m \in Eligible : datapoints[m].Timestamp <= datapoints[n].Timestamp}

Last(S) == CHOOSE n \in S : \A m \in S : m <= n

\* C1: for a response with at least one datapoint, getLastPercentile records under
\* each percentile's key the value of the datapoint whose timestamp is the maximum
\* among the datapoints not later than `now`.
C1_RecordsLatestNotAfterNow ==
    (pc = "called" /\ Eligible # {}) =>
        \A p \in PercentileSet :
            \E n \in LatestEligible : stat[p] = datapoints[n].ExtendedStatistics[p]

\* C10: when several datapoints share the latest eligible timestamp, the value
\* recorded for each percentile is that of the last of them in response order.
C10_TieLastInResponseOrderWins ==
    (pc = "called" /\ Cardinality(LatestEligible) >= 2) =>
        \A p \in PercentileSet :
            stat[p] = datapoints[Last(LatestEligible)].ExtendedStatistics[p]

DistinctTimestamps ==
    \A m, n \in 1..Len(datapoints) :
        m # n => datapoints[m].Timestamp # datapoints[n].Timestamp

\* The same datapoints in every order.
Reorderings ==
    {[n \in 1..Len(datapoints) |-> datapoints[f[n]]] : f \in Permutations(1..Len(datapoints))}

\* What the call under study records for the datapoints dps.
Recorded(dps) ==
    IF version = "groups"
    THEN getLastPercentile(EmptyMap, "", now, [err |-> NilErr, Datapoints |-> dps]).stat
    ELSE LibGetLastPercentile(EmptyMap, [err |-> NilErr, Datapoints |-> dps]).stat

\* C8: two responses holding the same datapoints in different orders, their
\* timestamps pairwise distinct, record the same value for every percentile.
C8_OrderIndependentWithoutTies ==
    (pc = "called" /\ datapoints # <<>> /\ DistinctTimestamps) =>
        \A q \in Reorderings : Recorded(q) = stat

C8_Witness ==
    /\ pc = "called"
    /\ version = "groups"
    /\ Len(datapoints) = 3
    /\ DistinctTimestamps
    /\ datapoints[1].Timestamp > datapoints[2].Timestamp
    /\ datapoints[1].ExtendedStatistics # datapoints[2].ExtendedStatistics
    /\ stat["p99"] = datapoints[1].ExtendedStatistics["p99"]

(* The collection cycle, under Spec *)

\* C2: a statistics query that succeeds with zero datapoints makes FetchMetrics
\* return nil and the no-datapoints error, whatever earlier queries wrote; the
\* query writes nothing (no percentile defaulted to zero) and the cycle ends there.
C2_NoDatapointsAbortsCycle ==
    [][(Queried /\ resp'.err = NilErr /\ resp'.n = 0) =>
          /\ pc' = "returned"
          /\ ret' = ReturnErr(ErrNoDatapoints)
          /\ ret'.nil
          /\ stat' = stat]_vars

C2_Witness ==
    /\ pc = "returned"
    /\ resp.err = NilErr /\ resp.n = 0
    /\ Len(StatQueries) = 2
    /\ stat # EmptyMap
    /\ ret = ReturnErr(ErrNoDatapoints)

\* C3: when the k-th statistics query returns an API error, FetchMetrics returns
\* that error as it is and nil, and no further query is issued once it has returned.
C3_ApiErrorAbortsCycle ==
    [][/\ (Queried /\ resp'.err \in ApiErrors) =>
             /\ pc' = "returned"
             /\ ret'.nil
             /\ ret'.err = resp'.err
             /\ Len(StatQueries') = IF version = "groups" THEN i ELSE 1
       /\ pc = "returned" => queries' = queries]_vars

C3_Witness ==
    /\ pc = "returned"
    /\ resp.err \in ApiErrors
    /\ Len(TargetGroups) = 2
    /\ Len(StatQueries) = 2
    /\ stat # EmptyMap
    /\ ret.nil /\ ret.err = resp.err

\* C4 as stated: after a successful cycle the keys are <prefix>.<percentile> and
\* <prefix>.<short name>.<percentile>, and no other.
C4_KeysCarryConfiguredPrefix ==
    (version = "groups" /\ Succeeded) =>
        DOMAIN ret.stat =
            {MetricKeyPrefix \o "." \o p : p \in PercentileSet}
            \cup {MetricKeyPrefix \o "." \o ShortName(tg) \o "." \o p :
                    tg \in Range(TargetGroups), p \in PercentileSet}

\* C4 amended: after a successful cycle the keys of the returned map are exactly
\* the 5 percentile names for the load-balancer scope and, for each discovered
\* target group, the 5 keys response_ext_per_group.<short name>.<percentile>;
\* the configured prefix is no part of a key.
C4_KeysOfSnapshot ==
    (version = "groups" /\ Succeeded) =>
        DOMAIN ret.stat =
            PercentileSet
            \cup {"response_ext_per_group." \o ShortName(tg) \o "." \o p :
                    tg \in Range(TargetGroups), p \in PercentileSet}

C4_Witness ==
    /\ version = "groups"
    /\ Succeeded
    /\ Len(TargetGroups) = 2
    /\ ShortName(TargetGroups[1]) # ShortName(TargetGroups[2])
    /\ Cardinality(DOMAIN ret.stat) = 15
    /\ "response_ext_per_group.tg-a.p99" \in DOMAIN ret.stat

\* The keys the query of one target group writes.
GroupKeys(tg) == {GroupPrefix(tg) \o p : p \in PercentileSet}

\* C5: the keys written for two distinct target-group identifiers are disjoint,
\* and disjoint from the load-balancer-level keys: the query of one scope never
\* writes a key that the query of a different scope wrote earlier in the cycle.
C5_KeysCollisionFree ==
    [][(version = "groups" /\ pc = "loop" /\ Queried /\ err' = NilErr) =>
          IF i <= Len(TargetGroups)
          THEN \A j \in 1..(i - 1) :
                   TargetGroups[j] # TargetGroups[i] =>
                       GroupKeys(TargetGroups[j]) \cap GroupKeys(TargetGroups[i]) = {}
          ELSE \A j \in 1..Len(TargetGroups) :
                   GroupKeys(TargetGroups[j]) \cap PercentileSet = {}]_vars

\* The TargetGroup value of a metric.
TargetGroupOf(m) ==
    LET d == CHOOSE k \in DimsNamed(m, "TargetGroup") : TRUE
    IN  m.Dimensions[d].Value

HasTwoDimensions(m) == Len(m.Dimensions) = 2

\* C6: the TargetGroupSet prepare builds is, in catalog order and without
\* deduplication, the TargetGroup value of each returned metric that has exactly
\* two dimensions; metrics with 1 or 3 dimensions contribute nothing.
C6_TargetGroupsFromCatalog ==
    (version = "groups" /\ pc = "ready") =>
        LET qualifying == SelectSeq(metrics, HasTwoDimensions)
        IN  TargetGroups = [n \in 1..Len(qualifying) |-> TargetGroupOf(qualifying[n])]

C6_Witness ==
    /\ version = "groups"
    /\ pc = "ready"
    /\ Len(metrics) = 2
    /\ Len(metrics[1].Dimensions) # 2
    /\ Len(metrics[2].Dimensions) = 2
    /\ metrics[2].Dimensions[1].Name = "LoadBalancer"
    /\ TargetGroups = <<metrics[2].Dimensions[2].Value>>

\* C7: every query issued carries a LoadBalancer dimension exactly when a
\* load-balancer name is configured, and then with the configured name as value.
C7_LoadBalancerDimension ==
    \A n \in 1..Len(queries) :
        LET lbs == DimsNamed(queries[n], "LoadBalancer")
        IN  /\ (lbs # {}) <=> (LBName # "")
            /\ \A k \in lbs :
                   /\ "Value" \in DOMAIN queries[n].Dimensions[k]
                   /\ queries[n].Dimensions[k].Value = LBName
            /\ Cardinality(lbs) <= 1

C7_Witness ==
    /\ version = "groups"
    /\ Succeeded
    /\ LBName = ""
    /\ Len(queries) = 3
    /\ \A n \in 1..Len(queries) : DimsNamed(queries[n], "LoadBalancer") = {}

\* C9: a successful cycle over N entries has issued exactly N+1 statistics
\* queries: the n-th carries TargetGroup = the n-th entry, the last carries no
\* TargetGroup dimension; the cycle leaves the TargetGroupSet as it was.
C9_QueriesOfACycle ==
    /\ []((version = "groups" /\ Succeeded) =>
            /\ Len(StatQueries) = Len(TargetGroups) + 1
            /\ \A n \in 1..Len(TargetGroups) :
                   /\ Cardinality(DimsNamed(StatQueries[n], "TargetGroup")) = 1
                   /\ \A k \in DimsNamed(StatQueries[n], "TargetGroup") :
                          StatQueries[n].Dimensions[k].Value = TargetGroups[n]
            /\ DimsNamed(StatQueries[Len(StatQueries)], "TargetGroup") = {})
    /\ [][(pc \in {"ready", "loop"}) => (TargetGroups' = TargetGroups)]_vars

C9_Witness ==
    /\ version = "groups"
    /\ Succeeded
    /\ Len(TargetGroups) = 2
    /\ TargetGroups[1] = TargetGroups[2]
    /\ Len(StatQueries) = 3

====
